---- MODULE Spec2Model ----
(***************************************************************************)
(* Model of chainer.links.connection.lstm.LSTM: a stateful LSTM link that  *)
(* keeps the cell state c and the previous output h between calls and      *)
(* handles mini-batches that shrink from one call to the next.             *)
(*                                                                         *)
(* A tensor is a record [data, width, dev]: data is the sequence of its    *)
(* rows (one abstract value of Val per row), width its trailing dimension  *)
(* and dev the memory space that holds it.  The attribute value None of    *)
(* the source is the record None.                                          *)
(***************************************************************************)
EXTENDS Integers, Sequences, FiniteSets, TLC

\* Largest leading (batch) dimension of an input of __call__.
MaxBatch == 2

\* LSTM(5, 7) of the tests.
in_size == 5
out_size == 7

\* Row values: the integers modulo 3.
Val == {0, 1, 2}
\* Row values of the inputs.
InputVal == {0, 1}
Devices == {"cpu", "gpu"}

None == [none |-> TRUE]

Tensor(d, w, dv) == [data |-> d, width |-> w, dev |-> dv]

\* len(t.data)
Rows(t) == Len(t.data)

VARIABLES c, h, xp, state_size, last, hist

vars == <<c, h, xp, state_size, last, hist>>

\* The inputs of __call__: batch >= 1 rows of width in_size on the link's
\* device, and, as a caller's shape error, inputs one column too wide.
SeqsOf(S, n) == [1..n -> S]
Inputs(dv) ==
    { Tensor(d, in_size, dv) :
        d \in UNION { SeqsOf(InputVal, n) : n \in 1..MaxBatch } }
    \cup { Tensor([i \in 1..n |-> 0], in_size + 1, dv) : n \in 1..MaxBatch }

(***************************************************************************)
(* The primitives the link calls.  Each has a type check (..._ok) and a    *)
(* value; the row arithmetic is carried out modulo 3.                      *)
(***************************************************************************)

\* numpy/cupy zeros((n, w)) allocated by the array module dv.
zeros(n, w, dv) == Tensor([i \in 1..n |-> 0], w, dv)

\* linear.Linear(in_size, 4 * out_size): an affine map with bias, whose
\* parameters live on device dv.
upward_ok(x, dv) == x.width = in_size /\ x.dev = dv
upward(x) ==
    Tensor([i \in 1..Rows(x) |-> (2 * x.data[i] + 1) % 3], 4 * out_size, x.dev)

\* linear.Linear(out_size, 4 * out_size, nobias=True).
lateral_ok(t, dv) == t.width = out_size /\ t.dev = dv
lateral(t) ==
    Tensor([i \in 1..Rows(t) |-> (2 * t.data[i]) % 3], 4 * out_size, t.dev)

\* Variable + Variable: both operands have the same shape.
add_ok(a, b) == Rows(a) = Rows(b) /\ a.width = b.width /\ a.dev = b.dev
add(a, b) ==
    Tensor([i \in 1..Rows(a) |-> (a.data[i] + b.data[i]) % 3], a.width, a.dev)

\* split_axis(t, [n], axis=0): the first n rows and the remaining rows.
split_axis(t, n) ==
    << Tensor(SubSeq(t.data, 1, n), t.width, t.dev),
       Tensor(SubSeq(t.data, n + 1, Rows(t)), t.width, t.dev) >>

\* concat([a, b], axis=0)
concat_ok(a, b) == a.width = b.width /\ a.dev = b.dev
concat(a, b) == Tensor(a.data \o b.data, a.width, a.dev)

\* functions.lstm(c_prev, x): x has at most as many rows as c_prev and four
\* times its width.  The first len(x) rows of the cell state are updated
\* from the gates, the rows beyond are carried over; the output has len(x)
\* rows.  Returns <<c_next, h>>.
lstm_ok(c_prev, x) ==
    /\ Rows(x) <= Rows(c_prev)
    /\ x.width = 4 * c_prev.width
    /\ x.dev = c_prev.dev
lstm(c_prev, x) ==
    LET n == Rows(x)
        c_next == [i \in 1..Rows(c_prev) |->
                     IF i <= n THEN (2 * c_prev.data[i] + x.data[i]) % 3
                               ELSE c_prev.data[i]]
        hh == [i \in 1..n |-> (c_next[i] + x.data[i] + 1) % 3]
    IN << Tensor(c_next, c_prev.width, c_prev.dev),
          Tensor(hh, c_prev.width, c_prev.dev) >>

\* Variable.to_cpu() / Variable.to_gpu(): the data moves, the values stay.
to_device(t, dv) == Tensor(t.data, t.width, dv)


(***************************************************************************)
(* The operations of the link.                                             *)
(***************************************************************************)

\* A primitive raises when its type check fails or when the fault injected
\* into this call (an allocation or device failure) names it.
\* The faults of a call with input x when the output state is sh: "none" and
\* the primitives the call reaches.
\* What a fault in upward, split_axis, lateral or lstm leaves behind depends
\* on x through its shape only, so these are injected into the calls whose
\* input rows are all 0; a fault in concat is injected into every call.
\* An input that is too wide never gets past the type check of upward, so
\* no fault is injected into its call.
FaultsOf(sh, x) ==
    IF x.width # in_size THEN {"none"} ELSE
    {"none"}
    \cup (IF sh # None /\ Rows(sh) > Rows(x) THEN {"concat"} ELSE {})
    \cup (IF \A i \in 1..Rows(x) : x.data[i] = 0
            THEN {"upward", "lstm"}
                 \cup (IF sh # None THEN {"lateral"} ELSE {})
                 \cup (IF sh # None /\ Rows(sh) > Rows(x)
                         THEN {"split_axis"} ELSE {})
            ELSE {})
\* The faults of a transfer: "none", the transfer of the parameters ("super")
\* and the transfers of the attributes that are not None.
TransferFaultsOf(sc, sh) ==
    {"none", "super"}
    \cup (IF sc # None THEN {"c"} ELSE {})
    \cup (IF sh # None THEN {"h"} ELSE {})

\* What a call leaves behind: the attributes c and h, the returned value,
\* the primitive that raised ("none" when the call returned) and the shapes
\* of the arguments lstm.lstm was called with (None when it was not called).
Outcome(sc, sh, r, e) ==
    [c |-> sc, h |-> sh, ret |-> r, err |-> e, gate |-> None]

\* The outcome o of a call that got as far as lstm.lstm(c_prev, x).
WithGate(o, c_prev, x) ==
    [o EXCEPT !.gate = [c_rows |-> Rows(c_prev), c_width |-> c_prev.width,
                        x_rows |-> Rows(x), x_width |-> x.width]]

\* Variants of reset_state: self.c, self.h = self.h, None; self.c = None;
\* self.h = None.
reset_state_swap(sc, sh) == Outcome(sh, None, None, "none")
reset_state_c_only(sc, sh) == Outcome(None, sh, None, "none")
reset_state_h_only(sc, sh) == Outcome(sc, None, None, "none")
\* LSTM.reset_state: self.c = self.h = None
reset_state(sc, sh) == Outcome(None, None, None, "none")

\* Variant of h_parts: the last batch rows are updated, the first are kept.
h_parts_tail(sh, batch) ==
    IF Rows(sh) > batch
      THEN << Tensor(SubSeq(sh.data, Rows(sh) - batch + 1, Rows(sh)), sh.width, sh.dev),
              Tensor(SubSeq(sh.data, 1, Rows(sh) - batch), sh.width, sh.dev) >>
      ELSE << sh, None >>
\* Variant of h_parts: h_rest starts as self.h instead of None.
h_parts_rest_is_h(sh, batch) ==
    IF Rows(sh) > batch THEN split_axis(sh, batch) ELSE << sh, sh >>
\* Variant of h_parts: an output state with fewer rows than the input is
\* padded with zero rows.
h_parts_pad(sh, batch) ==
    IF Rows(sh) > batch THEN split_axis(sh, batch)
    ELSE IF Rows(sh) < batch
      THEN << Tensor(sh.data \o [i \in 1..(batch - Rows(sh)) |-> 0], sh.width, sh.dev),
              None >>
    ELSE << sh, None >>
\* if len(self.h.data) > batch: h_update, h_rest = split_axis(self.h, [batch])
\* else the whole of self.h goes through lateral and h_rest stays None.
\* Returns <<the input of lateral, h_rest>>.
h_parts(sh, batch) ==
    IF Rows(sh) > batch THEN split_axis(sh, batch) ELSE << sh, None >>

\* Variants of initial_c: a state of ones, a state with one row too many.
initial_c_ones(sc, batch, ssize, dv) ==
    IF sc = None THEN Tensor([i \in 1..batch |-> 1], ssize, dv) ELSE sc
initial_c_extra_row(sc, batch, ssize, dv) ==
    IF sc = None THEN zeros(batch + 1, ssize, dv) ELSE sc
\* if self.c is None: self.c = Variable(xp.zeros((len(x.data), self.state_size)))
initial_c(sc, batch, ssize, dv) ==
    IF sc = None THEN zeros(batch, ssize, dv) ELSE sc

\* Variants of final_h: h_rest in front, h_rest dropped.
final_h_swapped(hh, h_rest) ==
    IF h_rest # None THEN concat(h_rest, hh) ELSE hh
final_h_no_rest(hh, h_rest) == hh
\* if h_rest is not None: h = concat([h, h_rest], axis=0)
final_h(hh, h_rest) ==
    IF h_rest # None THEN concat(hh, h_rest) ELSE hh

\* LSTM.__call__(x) on the attributes sc, sh, with the parameters on
\* device dv.  The attribute c is assigned twice (the zero state, then the
\* new cell state) and h once, each as soon as its line has run, so a
\* primitive that raises leaves the assignments made before it.
call(sc, sh, dv, ssize, x, fault) ==
    LET batch == Rows(x)
        parts == h_parts(sh, batch)
        h_rest == IF sh # None THEN parts[2] ELSE None
        up == upward(x)
        lat == lateral(parts[1])
        lstm_in == IF sh # None THEN add(up, lat) ELSE up
        c0 == initial_c(sc, batch, ssize, dv)
        res == lstm(c0, lstm_in)
        hnew == final_h(res[2], h_rest)
    IN  IF fault = "upward" \/ ~upward_ok(x, dv)
          THEN Outcome(sc, sh, None, "upward")
        ELSE IF sh # None /\ Rows(sh) > batch /\ fault = "split_axis"
          THEN Outcome(sc, sh, None, "split_axis")
        ELSE IF sh # None /\ (fault = "lateral" \/ ~lateral_ok(parts[1], dv))
          THEN Outcome(sc, sh, None, "lateral")
        ELSE IF sh # None /\ ~add_ok(up, lat)
          THEN Outcome(sc, sh, None, "add")
        ELSE IF fault = "lstm" \/ ~lstm_ok(c0, lstm_in)
          THEN WithGate(Outcome(c0, sh, None, "lstm"), c0, lstm_in)
        ELSE IF h_rest # None /\ (fault = "concat" \/ ~concat_ok(res[2], h_rest))
          THEN WithGate(Outcome(res[1], sh, None, "concat"), c0, lstm_in)
        ELSE WithGate(Outcome(res[1], hnew, hnew, "none"), c0, lstm_in)

\* Variant of transfer: h is not moved.
transfer_c_only(sc, sh, dv, fault) ==
    LET mc == IF sc # None THEN to_device(sc, dv) ELSE sc
    IN  IF fault = "super" THEN Outcome(sc, sh, None, "super")
        ELSE IF sc # None /\ fault = "c" THEN Outcome(sc, sh, None, "c")
        ELSE Outcome(mc, sh, None, "none")
\* LSTM.to_cpu / LSTM.to_gpu towards device dv: the parameters first, then
\* c, then h; a transfer that raises leaves the later ones where they were.
transfer(sc, sh, dv, fault) ==
    LET mc == IF sc # None THEN to_device(sc, dv) ELSE sc
        mh == IF sh # None THEN to_device(sh, dv) ELSE sh
    IN  IF fault = "super" THEN Outcome(sc, sh, None, "super")
        ELSE IF sc # None /\ fault = "c" THEN Outcome(sc, sh, None, "c")
        ELSE IF sh # None /\ fault = "h" THEN Outcome(mc, sh, None, "h")
        ELSE Outcome(mc, mh, None, "none")

\* The record of the last operation: its name, the rows of its input, the
\* input itself when the operation returned, the attributes before it, what
\* it returned, where it raised and what lstm.lstm was called with.
Last(op, x, o, sc, sh) ==
    [op |-> op,
     batch |-> IF x = None THEN 0 ELSE Rows(x),
     x |-> IF o.err = "none" THEN x ELSE None,
     ret |-> o.ret, err |-> o.err, gate |-> o.gate,
     c0 |-> sc, h0 |-> sh]

(***************************************************************************)
(* The history of a run since the link was constructed or last reset,      *)
(* kept by the tracked operations below:                                   *)
(*   twin_c, twin_h, twin_ret  the attributes and the last output of a     *)
(*       second link, constructed when this one was constructed or reset,  *)
(*       that has got the same calls and transfers since;                  *)
(*   first        the rows of the input of the first call that returned;   *)
(*   computed     computed[i] is row i of the output of the last call      *)
(*                that returned and had at least i input rows;             *)
(*   prev_shrunk  the operation before the last one was a call that        *)
(*                returned and had fewer rows than the output state;       *)
(*   prev_reset   the operation before the last one was reset_state on a   *)
(*                set link.                                                *)
(***************************************************************************)
HistInit ==
    [twin_c |-> None, twin_h |-> None, twin_ret |-> None,
     first |-> 0, computed |-> << >>, prev_shrunk |-> FALSE,
     prev_reset |-> FALSE]

\* The last operation was a call with fewer rows than h had, and returned.
ShrunkNow ==
    /\ last.op = "call" /\ last.err = "none"
    /\ last.c0 # None /\ last.h0 # None
    /\ Rows(last.h0) > last.batch

\* The last operation was reset_state on a link whose c and h were set.
ResetNow == last.op = "reset_state" /\ last.c0 # None /\ last.h0 # None

HistAfterReset ==
    [HistInit EXCEPT !.prev_shrunk = ShrunkNow, !.prev_reset = ResetNow]

\* The history after a call with input x whose outcome is o.
HistAfterCall(x, o) ==
    LET t == call(hist.twin_c, hist.twin_h, xp, out_size, x, "none")
        n == IF Len(hist.computed) > Rows(x) THEN Len(hist.computed) ELSE Rows(x)
    IN  [twin_c |-> t.c, twin_h |-> t.h, twin_ret |-> t.ret,
         first |-> IF o.err = "none" /\ hist.first = 0 THEN Rows(x)
                                                       ELSE hist.first,
         computed |-> IF o.err # "none" THEN hist.computed
                      ELSE [i \in 1..n |-> IF i <= Rows(x) THEN o.ret.data[i]
                                                           ELSE hist.computed[i]],
         prev_shrunk |-> ShrunkNow,
         prev_reset |-> ResetNow]

\* The history after a transfer towards device dv.
HistAfterTransfer(dv) ==
    LET t == transfer(hist.twin_c, hist.twin_h, dv, "none")
    IN  [hist EXCEPT !.twin_c = t.c, !.twin_h = t.h, !.twin_ret = None,
                     !.prev_shrunk = ShrunkNow, !.prev_reset = ResetNow]

\* Variant of Init: self.state_size = in_size.
Init_in_size ==
    /\ c = None
    /\ h = None
    /\ xp = "cpu"
    /\ state_size = in_size
    /\ last = Last("init", None, reset_state(None, None), None, None)
    /\ hist = HistInit

\* LSTM.__init__: the link is created on the CPU, state_size = out_size,
\* reset_state().
Init ==
    /\ c = reset_state(None, None).c
    /\ h = reset_state(None, None).h
    /\ xp = "cpu"
    /\ state_size = out_size
    /\ last = Last("init", None, reset_state(None, None), None, None)
    /\ hist = HistInit

ResetState ==
    LET o == reset_state(c, h)
    IN  /\ c' = o.c
        /\ h' = o.h
        /\ last' = Last("reset_state", None, o, c, h)
        /\ UNCHANGED <<xp, state_size, hist>>

\* LSTM.__call__ on an input x; o is the outcome of the one call.
Call ==
    \E x \in Inputs(xp) : \E fault \in FaultsOf(h, x) :
        \E o \in {call(c, h, xp, state_size, x, fault)} :
            /\ c' = o.c
            /\ h' = o.h
            /\ last' = Last("call", x, o, c, h)
            /\ UNCHANGED <<xp, state_size, hist>>

\* Variant of ToDevice: super().to_cpu() / super().to_gpu() is not called.
ToDevice_no_super(op, dv) ==
    \E fault \in TransferFaultsOf(c, h) \ {"super"} :
        LET o == transfer(c, h, dv, fault)
        IN  /\ c' = o.c
            /\ h' = o.h
            /\ last' = Last(op, None, o, c, h)
            /\ UNCHANGED <<xp, state_size, hist>>

\* super().to_cpu() / super().to_gpu(): the parameters move to dv; when it
\* raises, the parameters are on either device.
ToDevice(op, dv) ==
    \E fault \in TransferFaultsOf(c, h) :
        LET o == transfer(c, h, dv, fault)
        IN  /\ c' = o.c
            /\ h' = o.h
            /\ xp' \in (IF o.err = "super" THEN {xp, dv} ELSE {dv})
            /\ last' = Last(op, None, o, c, h)
            /\ UNCHANGED <<state_size, hist>>

ToCpu == ToDevice("to_cpu", "cpu")

ToGpu == ToDevice("to_gpu", "gpu")

Next == ResetState \/ Call \/ ToCpu \/ ToGpu

Spec == Init /\ [][Next]_vars

(***************************************************************************)
(* The same operations in runs where no primitive raises for a reason of   *)
(* its own (only the type checks raise), with the history kept.            *)
(***************************************************************************)

TrackedResetState ==
    LET o == reset_state(c, h)
    IN  /\ c' = o.c
        /\ h' = o.h
        /\ last' = Last("reset_state", None, o, c, h)
        /\ hist' = HistAfterReset
        /\ UNCHANGED <<xp, state_size>>

TrackedCall ==
    \E x \in Inputs(xp) :
        \E o \in {call(c, h, xp, state_size, x, "none")} :
            /\ c' = o.c
            /\ h' = o.h
            /\ last' = Last("call", x, o, c, h)
            /\ hist' = HistAfterCall(x, o)
            /\ UNCHANGED <<xp, state_size>>

TrackedToDevice(op, dv) ==
    LET o == transfer(c, h, dv, "none")
    IN  /\ c' = o.c
        /\ h' = o.h
        /\ xp' = dv
        /\ last' = Last(op, None, o, c, h)
        /\ hist' = HistAfterTransfer(dv)
        /\ UNCHANGED state_size

TrackedToCpu == TrackedToDevice("to_cpu", "cpu")

TrackedToGpu == TrackedToDevice("to_gpu", "gpu")

TrackedNext ==
    TrackedResetState \/ TrackedCall \/ TrackedToCpu \/ TrackedToGpu

SpecTracked == Init /\ [][TrackedNext]_vars


(***************************************************************************)
(* Properties.                                                             *)
(***************************************************************************)

Unset(sc, sh) == sc = None /\ sh = None
IsSet(sc, sh) == sc # None /\ sh # None

\* The last operation was a __call__ that returned / that raised.
CallReturned == last.op = "call" /\ last.err = "none"
CallRaised == last.op = "call" /\ last.err # "none"
\* The last operation was a __call__ with fewer rows than the output state had.
Shrinking ==
    /\ last.op = "call"
    /\ IsSet(last.c0, last.h0)
    /\ Rows(last.h0) > last.batch
Transfers == {"to_cpu", "to_gpu"}
TargetOf(op) == IF op = "to_cpu" THEN "cpu" ELSE "gpu"

\* The first n rows of a tensor.
FirstRows(t, n) == Tensor(SubSeq(t.data, 1, n), t.width, t.dev)

\* C1: between operations, also after one that raised, c and h are both
\* None or both not None.
C1_BothOrNeither == (c = None) <=> (h = None)

\* C2: a __call__ that raised leaves c and h exactly as they were before it,
\* also when c was None and the gate activation raised.
C2_RaisedCallLeavesState == CallRaised => (c = last.c0 /\ h = last.h0)

\* C3: a __call__ with batch b on a set link whose h has P > b rows returns
\* P rows, and its rows b+1..P are the rows b+1..P of h before the call.
C3_ShrinkingKeepsRest ==
    (Shrinking /\ CallReturned) =>
        /\ Rows(last.ret) = Rows(last.h0)
        /\ \A i \in (Rows(last.x) + 1)..Rows(last.h0) :
               last.ret.data[i] = last.h0.data[i]
        /\ last.ret.width = last.h0.width

\* C3 witness: a shrinking call returned, and the row it carried over is not
\* what the gate computes for the rows it updates.
C3_Witness ==
    /\ Shrinking /\ CallReturned
    /\ last.ret.data[Rows(last.h0)] # last.ret.data[1]

\* C4: in that call the first b returned rows are the output of the gate
\* primitive on the first b rows of c and upward(x) + lateral(first b rows of
\* h); the rows from b+1 on contribute nothing.
C4_ShrinkingUpdatesHead ==
    (Shrinking /\ CallReturned) =>
        LET b == Rows(last.x)
            gates == add(upward(last.x), lateral(FirstRows(last.h0, b)))
        IN  FirstRows(last.ret, b) = lstm(FirstRows(last.c0, b), gates)[2]

\* C4 witness: a shrinking call returned whose carried rows differ from the
\* first rows of h and c before the call.
C4_Witness ==
    /\ Shrinking /\ CallReturned
    /\ last.h0.data[Rows(last.h0)] # last.h0.data[1]
    /\ last.c0.data[Rows(last.c0)] # last.c0.data[1]

\* C5: a __call__ on an unset link returns the output of the gate primitive
\* on a zero cell state of shape (b, out_size) and upward(x) alone, and
\* stores the primitive's cell state and that output as c and h.
C5_FirstCallHasNoLateral ==
    (CallReturned /\ Unset(last.c0, last.h0)) =>
        LET res == lstm(zeros(Rows(last.x), out_size, last.x.dev), upward(last.x))
        IN  /\ last.ret = res[2]
            /\ c = res[1]
            /\ h = res[2]

\* C5 witness: a call on an unset link with MaxBatch rows, not all equal,
\* returned.
C5_Witness ==
    /\ CallReturned /\ Unset(last.c0, last.h0)
    /\ Rows(last.x) = MaxBatch
    /\ last.x.data[1] # last.x.data[MaxBatch]

\* C6: the link is unset right after construction and right after
\* reset_state, whatever calls and transfers came before.
C6_UnsetAfterInitAndReset ==
    last.op \in {"init", "reset_state"} => Unset(c, h)

\* C6 witness: reset_state on a set link that was moved to the GPU.
C6_Witness ==
    /\ last.op = "reset_state"
    /\ IsSet(last.c0, last.h0)
    /\ last.h0.dev = "gpu"
    /\ Unset(c, h)

\* C7: a __call__ that returned leaves the link set; on an unset link it
\* leaves c and h with shape (b, out_size).
C7_CallMaterializesState ==
    CallReturned =>
        /\ IsSet(c, h)
        /\ Unset(last.c0, last.h0) =>
              /\ Rows(c) = Rows(last.x) /\ c.width = out_size
              /\ Rows(h) = Rows(last.x) /\ h.width = out_size

\* C7 witness: a call with MaxBatch rows took the link from unset to set.
C7_Witness ==
    /\ CallReturned /\ Unset(last.c0, last.h0) /\ IsSet(c, h)
    /\ Rows(last.x) = MaxBatch

\* C8 as stated: every __call__ that returned gave an output of shape
\* (batch, out_size), batch being the rows of its input, which is the new h.
C8_OutputHasInputBatch ==
    CallReturned =>
        /\ Rows(last.ret) = Rows(last.x)
        /\ last.ret.width = out_size
        /\ h = last.ret

\* The rows of the output state before the last call, 0 when it was None.
PrevRows == IF last.h0 = None THEN 0 ELSE Rows(last.h0)
Max(a, b) == IF a >= b THEN a ELSE b

\* C8 amended: every __call__ that returned gave an output of shape
\* (max(batch, P), out_size), P being the rows of h before the call (none
\* when h was None), which is the new h.
C8_OutputHasLargerBatch ==
    CallReturned =>
        /\ Rows(last.ret) = Max(Rows(last.x), PrevRows)
        /\ last.ret.width = out_size
        /\ h = last.ret

\* C8 witness: a call with fewer rows than h had returned.
C8_Witness == Shrinking /\ CallReturned /\ Rows(last.ret) > Rows(last.x)

\* C9: reset_state never raises and is idempotent: a second reset_state
\* changes nothing, and on an unset link the first one changes nothing.
C9_ResetIdempotent ==
    LET once == reset_state(c, h)
        twice == reset_state(once.c, once.h)
    IN  /\ once.err = "none"
        /\ twice = once
        /\ Unset(c, h) => (once.c = c /\ once.h = h)
        /\ last.op = "reset_state" =>
              /\ last.err = "none"
              /\ c = once.c /\ h = once.h
              /\ Unset(last.c0, last.h0) => (c = last.c0 /\ h = last.h0)

\* C9 witness: reset_state ran on a set link with MaxBatch rows.
C9_Witness ==
    /\ last.op = "reset_state"
    /\ IsSet(last.c0, last.h0)
    /\ Rows(last.h0) = MaxBatch

\* C10: a transfer keeps c and h None or not None and keeps their values;
\* one that returned leaves both on the target device.
SameValues(t, t0) ==
    /\ (t = None) <=> (t0 = None)
    /\ t # None => (t.data = t0.data /\ t.width = t0.width)
OnDevice(t, dv) == t # None => t.dev = dv
C10_TransferKeepsState ==
    last.op \in Transfers =>
        /\ SameValues(c, last.c0)
        /\ SameValues(h, last.h0)
        /\ last.err = "none" =>
              /\ OnDevice(c, TargetOf(last.op))
              /\ OnDevice(h, TargetOf(last.op))

\* C10 witness: to_gpu returned on a set link that was on the CPU.
C10_Witness ==
    /\ last.op = "to_gpu" /\ last.err = "none"
    /\ IsSet(last.c0, last.h0)
    /\ last.c0.dev = "cpu" /\ last.h0.dev = "cpu"
    /\ c.dev = "gpu" /\ h.dev = "gpu"

\* C11 as stated: c and h are never on different devices; after a transfer,
\* also one that raised, both are on the target device or both are where
\* they were before it.
C11_TransferAtomic ==
    IsSet(c, h) =>
        /\ c.dev = h.dev
        /\ (last.op \in Transfers /\ IsSet(last.c0, last.h0)) =>
              \/ c.dev = TargetOf(last.op) /\ h.dev = TargetOf(last.op)
              \/ c.dev = last.c0.dev /\ h.dev = last.h0.dev

\* C12: after a transfer of a set link that returned, c and h are on the
\* device of the link's array module, with the values they had; a transfer
\* to the device they are on already changes nothing.
C12_TransferredStateOnLinkDevice ==
    (last.op \in Transfers /\ last.err = "none" /\ IsSet(last.c0, last.h0)) =>
        /\ xp = TargetOf(last.op)
        /\ c.dev = xp /\ h.dev = xp
        /\ c.data = last.c0.data /\ h.data = last.h0.data
        /\ (last.c0.dev = xp /\ last.h0.dev = xp) => (c = last.c0 /\ h = last.h0)

\* C12 witness: to_gpu returned on a set link that was on the GPU already.
C12_Witness ==
    /\ last.op = "to_gpu" /\ last.err = "none"
    /\ IsSet(last.c0, last.h0)
    /\ last.c0.dev = "gpu" /\ last.h0.dev = "gpu"
    /\ c = last.c0 /\ h = last.h0 /\ xp = "gpu"

\* C14 as stated, for the calls on a link that is unset or set: lstm.lstm is
\* called with a cell state and gates of the same number of rows, of widths
\* out_size and 4 * out_size.
C14_GateSameBatch ==
    (last.gate # None /\ (Unset(last.c0, last.h0) \/ IsSet(last.c0, last.h0))) =>
        /\ last.gate.c_rows = last.gate.x_rows
        /\ last.gate.c_width = out_size
        /\ last.gate.x_width = 4 * out_size

\* The rows of the cell state lstm.lstm gets in the last call: those of c
\* before the call, those of the input when c was None.
CellRows == IF last.c0 = None THEN last.batch ELSE Rows(last.c0)

\* C14 amended: lstm.lstm is called with the whole cell state, (P, out_size),
\* and gates of shape (batch, 4 * out_size); when it returns batch <= P, and
\* in a call with fewer rows than the output state has, batch < P.
C14_GateBatchWithinCell ==
    last.gate # None =>
        /\ last.gate.x_rows = last.batch
        /\ last.gate.c_rows = CellRows
        /\ last.gate.c_width = out_size
        /\ last.gate.x_width = 4 * out_size
        /\ last.err # "lstm" => last.gate.x_rows <= last.gate.c_rows
        /\ Shrinking => last.gate.x_rows < last.gate.c_rows

\* C14 witness: a call with fewer rows than the output state had returned;
\* lstm.lstm got more cell rows than gate rows.
C14_Witness ==
    /\ Shrinking /\ CallReturned
    /\ last.gate.c_rows = MaxBatch
    /\ last.gate.x_rows < MaxBatch

\* The last operation was a __call__ with more rows than the output state had.
Growing ==
    /\ last.op = "call"
    /\ IsSet(last.c0, last.h0)
    /\ Rows(last.h0) < last.batch

\* C15: a call with more rows than the output state has raises before
\* lstm.lstm is reached, without splitting, and leaves c and h as they were.
C15_GrowingBatchRaises ==
    Growing =>
        /\ last.err \in {"upward", "lateral", "add"}
        /\ last.gate = None
        /\ last.ret = None
        /\ c = last.c0 /\ h = last.h0

\* C15 witness: the sum of upward(x) and lateral(h) raised in such a call.
C15_Witness == Growing /\ last.err = "add" /\ last.batch = MaxBatch

\* C17 as stated: after a call that returned, c and h have the same number of
\* rows and width out_size.
C17_SameLeadingDim ==
    CallReturned =>
        /\ Rows(c) = Rows(h)
        /\ c.width = out_size /\ h.width = out_size

\* C20: state_size is out_size after construction and after every operation.
C20_StateSizeFixed == state_size = out_size

\* C20 witness: calls, a transfer and a reset have run.
C20_Witness ==
    /\ last.op = "reset_state" /\ IsSet(last.c0, last.h0)
    /\ xp = "gpu" /\ last.c0.dev = "gpu"
    /\ state_size = out_size

\* C13: a link that was reset behaves as a newly constructed one: after the
\* same calls and transfers both have the same c and h, and every call
\* returned the same output to both.
C13_ResetLinkAsNew ==
    /\ c = hist.twin_c
    /\ h = hist.twin_h
    /\ last.op = "call" => last.ret = hist.twin_ret

\* C13 witness: the first call after a reset of a set link returned what a
\* new link returns, on MaxBatch rows that are not all equal.
C13_Witness ==
    /\ hist.prev_reset
    /\ CallReturned
    /\ last.c0 = None /\ last.h0 = None
    /\ last.ret = hist.twin_ret
    /\ last.batch = MaxBatch
    /\ last.ret.data[1] # last.ret.data[MaxBatch]

\* C16: row i of h is row i of the output of the last call that returned and
\* had at least i input rows; a call with fewer rows than h has passes only
\* its own rows through lstm.lstm.
C16_RowsFrozen ==
    /\ h # None =>
          /\ Len(hist.computed) = Rows(h)
          /\ \A i \in 1..Rows(h) : h.data[i] = hist.computed[i]
    /\ (Shrinking /\ CallReturned) => last.gate.x_rows = last.batch

\* C16 witness: two calls in a row with fewer rows than h returned, and the
\* last row of h is still the one computed before them.
C16_Witness ==
    /\ hist.prev_shrunk
    /\ Shrinking /\ CallReturned
    /\ h.data[MaxBatch] = hist.computed[MaxBatch]
    /\ h.data[MaxBatch] = last.h0.data[MaxBatch]
    /\ h.data[1] # last.h0.data[1]

\* C18: since construction or the last reset, h has as many rows as the
\* input of the first call that returned.
C18_RowsOfFirstCall ==
    /\ h # None => (hist.first >= 1 /\ Rows(h) = hist.first)
    /\ h = None => hist.first = 0

\* C18 witness: a call with fewer rows than the first one returned.
C18_Witness ==
    /\ Shrinking /\ CallReturned
    /\ last.batch < hist.first
    /\ Rows(h) = hist.first /\ hist.first = MaxBatch

\* The last operation was a call with as many rows as h had, right after a
\* call with fewer rows that returned.
FullAfterShrunk ==
    /\ hist.prev_shrunk
    /\ last.op = "call"
    /\ last.batch = Rows(last.h0)
    /\ last.err # "upward"

\* C19: such a call returns; lateral gets the whole of h and every row of
\* the new h, the carried ones too, comes out of lstm.lstm.
C19_FullBatchAfterShrink ==
    FullAfterShrunk =>
        /\ last.err = "none"
        /\ LET res == lstm(last.c0, add(upward(last.x), lateral(last.h0)))
           IN  /\ last.ret = res[2]
               /\ h = res[2]
               /\ c = res[1]
        /\ last.gate.x_rows = Rows(last.h0)
        /\ Rows(h) = Rows(last.h0)

\* C19 witness: such a call returned and changed the row that was carried.
C19_Witness ==
    /\ FullAfterShrunk /\ last.err = "none"
    /\ last.batch = MaxBatch
    /\ h.data[MaxBatch] # last.h0.data[MaxBatch]

====
